---- MODULE Spec2Model ----
(***************************************************************************)
(* Model of the tenant-provisioning script src/cli/create-tenant.ts and of *)
(* the lazily constructed shared pool (db()).                              *)
(*                                                                         *)
(* A string is a sequence of tokens; the token " " is white space and the  *)
(* empty sequence is the empty string.  The database is one PostgreSQL     *)
(* session behind a pool of size one: a snapshot of the committed tables,  *)
(* the working copy of the open transaction and the transaction status.    *)
(***************************************************************************)
EXTENDS Integers, Sequences, FiniteSets, TLC

\* ------------------------------------------------------------------ bounds
MaxRuns == 2          \* invocations of the script against the same database
MaxDbCalls == 12      \* calls of db() within one server process

NULL == "null"

\* the initial value of db()'s module-level pool: null
NoPool == [null |-> TRUE]

\* ------------------------------------------------------------- input sets
NameInputs == { <<>>, <<" ">>, <<" ", "acme">> }
LabelInputs == { <<>>, <<"ops">> }
GhlApiKeyInputs == { <<>>, <<"X", " ">> }
GhlLocationIdInputs == { <<>>, <<"L">> }
GhlBaseUrlInputs == { <<>>, <<"https://proxy.test">> }
GhlVersionInputs == { <<>> }
RawKeys == { <<"k1">>, <<"k2">> }
DatabaseUrls == { "unset", "", "postgres://db" }
NodeEnvs == { "unset", "production", "development" }
Results == { "ok", "error", "conn" }

\* ---------------------------------------------------------------- strings
RECURSIVE TrimStart(_)
TrimStart(s) == IF s # <<>> /\ Head(s) = " " THEN TrimStart(Tail(s)) ELSE s

RECURSIVE TrimEnd(_)
TrimEnd(s) ==
  IF s # <<>> /\ s[Len(s)] = " " THEN TrimEnd(SubSeq(s, 1, Len(s) - 1)) ELSE s

\* ask(): the answer, trimmed
Trim(s) == TrimEnd(TrimStart(s))

\* a || b on strings: the empty string is falsy
OrDefault(s, d) == IF s = <<>> THEN d ELSE s

\* t occurs in s as a contiguous run of tokens
Contains(s, t) ==
  \E i \in 1..(Len(s) - Len(t) + 1) : SubSeq(s, i, i + Len(t) - 1) = t

DefaultLabel == <<"primary">>
DefaultGhlBaseUrl == <<"https://services.leadconnectorhq.com">>
DefaultGhlVersion == <<"2021-07-28">>

\* sha256Hex(): a digest, one opaque token determined by the plaintext
sha256Hex(s) == << "sha256(" \o s[1] \o ")" >>

ErrNameRequired == <<"Tenant name is required.">>
ErrBothRequired ==
  <<"If you provide GHL credentials, you must provide BOTH API key and Location ID.">>
DbError(sql, res) == << "db " \o res \o ": " \o sql >>

\* ------------------------------------------------------------ environment
\* !DATABASE_URL
MissingOnlyUnset(url) == url = "unset"
Missing(url) == url = "unset" \/ url = ""


\* --------------------------------------------------------------- database
EmptyTables == [tenants |-> {}, api_keys |-> {}, tenant_secrets |-> {}]

\* the tables a statement of the session reads and writes
Visible(d) == IF d.tx = "open" THEN d.pending ELSE d.committed

\* outside a transaction every statement commits by itself
WriteTables(d, t) ==
  IF d.tx = "open"
  THEN [d EXCEPT !.pending = t]
  ELSE [d EXCEPT !.committed = t, !.pending = t]

\* the session ends (connection lost, process gone): the server aborts what is open
AbortSession(d) == [d EXCEPT !.tx = "idle", !.pending = d.committed]

\* the identifier the database generates for a new tenants row
FreshId(t) ==
  LET used == { r.id : r \in t.tenants }
      n == CHOOSE k \in 1..(Cardinality(used) + 1) :
             /\ << "t" \o ToString(k) >> \notin used
             /\ \A j \in 1..(k - 1) : << "t" \o ToString(j) >> \in used
  IN << "t" \o ToString(n) >>

\* a variant that reuses the row of a tenant of the same name
TenantInsertFindOrCreate(t, params) ==
  LET same == { r \in t.tenants : r.name = params[1] }
      id == IF same = {} THEN FreshId(t) ELSE (CHOOSE r \in same : TRUE).id
  IN [tables |-> [t EXCEPT !.tenants = @ \cup { [id |-> id, name |-> params[1]] }],
      rows |-> << [id |-> id] >>]

\* insert into tenants (name) values ($1) returning id
TenantInsert(t, params) ==
  LET id == FreshId(t)
  IN [tables |-> [t EXCEPT !.tenants = @ \cup { [id |-> id, name |-> params[1]] }],
      rows |-> << [id |-> id] >>]

\* insert into api_keys (tenant_id, key_hash, label) values ($1, $2, $3)
ApiKeyInsert(t, params) ==
  [tables |-> [t EXCEPT !.api_keys = @ \cup
                 { [tenant_id |-> params[1], key_hash |-> params[2], label |-> params[3]] }],
   rows |-> <<>>]

\* insert into tenant_secrets ... on conflict (tenant_id) do update set ...
SecretsUpsert(t, params, now) ==
  LET row == [tenant_id |-> params[1], ghl_api_key |-> params[2],
              ghl_location_id |-> params[3], ghl_base_url |-> params[4],
              ghl_version |-> params[5], updated_at |-> now]
      old == { r \in t.tenant_secrets : r.tenant_id = params[1] }
  IN [tables |-> IF old = {}
                 THEN [t EXCEPT !.tenant_secrets = @ \cup { row }]
                 ELSE [t EXCEPT !.tenant_secrets = (@ \ old) \cup { row }],
      rows |-> <<>>]

\* what a statement may answer: in a failed transaction only an error, until it ends
Outcomes(d, sql) ==
  IF d.tx = "failed" /\ sql \notin { "commit", "rollback" }
  THEN Results \ { "ok" }
  ELSE Results

\* pool.query(sql, params) with answer res at database time now
Exec(d, sql, params, res, now) ==
  IF res = "conn" THEN [db |-> AbortSession(d), rows |-> <<>>]
  ELSE IF res = "error"
  THEN [db |-> IF sql = "commit" THEN AbortSession(d)
               ELSE IF sql = "rollback" THEN d
               ELSE IF d.tx = "open" THEN [d EXCEPT !.tx = "failed"] ELSE d,
        rows |-> <<>>]
  ELSE CASE sql = "begin" ->
              [db |-> IF d.tx = "idle"
                      THEN [d EXCEPT !.tx = "open", !.pending = d.committed]
                      ELSE d,
               rows |-> <<>>]
         [] sql = "commit" ->
              [db |-> IF d.tx = "open"
                      THEN [tx |-> "idle", committed |-> d.pending, pending |-> d.pending]
                      ELSE AbortSession(d),
               rows |-> <<>>]
         [] sql = "rollback" -> [db |-> AbortSession(d), rows |-> <<>>]
         [] sql = "insert tenants" ->
              LET r == TenantInsert(Visible(d), params)
              IN [db |-> WriteTables(d, r.tables), rows |-> r.rows]
         [] sql = "insert api_keys" ->
              LET r == ApiKeyInsert(Visible(d), params)
              IN [db |-> WriteTables(d, r.tables), rows |-> r.rows]
         [] sql = "upsert tenant_secrets" ->
              LET r == SecretsUpsert(Visible(d), params, now)
              IN [db |-> WriteTables(d, r.tables), rows |-> r.rows]
         [] OTHER -> [db |-> d, rows |-> <<>>]

\* ------------------------------------------------------------------ state
VARIABLES
  env,            \* process.env.DATABASE_URL of the running script
  run,            \* the number of this invocation; also the database clock
  pc,             \* where main() stands
  exitCode,       \* NULL while the process runs
  pool,           \* main()'s pool: "none", "open" or "ended"
  answers,        \* the collected fields (type Answers)
  rawKey, keyHash, tenantId,
  err,            \* the error caught by main()'s catch
  console,        \* the lines written to the terminal by this run
  stmts,          \* the statements this run sent through pool.query, with their answers
  db,             \* the database behind DATABASE_URL
  dbAtStart,      \* history: the committed tables when this invocation started
  dbEnv,          \* process.env of the server process that imports db()
  dbPool,         \* the module-level pool of db()
  poolsConstructed, \* how many times new Pool(...) ran in that process
  dbCalls,        \* how many times db() was called
  dbReturned      \* the instances db() has returned

cliVars == << env, run, pc, exitCode, pool, answers, rawKey, keyHash, tenantId,
              err, console, stmts, db, dbAtStart >>
dbModuleVars == << dbEnv, dbPool, poolsConstructed, dbCalls, dbReturned >>
vars == << cliVars, dbModuleVars >>

NoAnswers == [name |-> <<>>, label |-> <<>>, ghlApiKey |-> <<>>,
              ghlLocationId |-> <<>>, ghlBaseUrl |-> <<>>, ghlVersion |-> <<>>]

\* now(): the database clock, which advances between invocations
Now == run

Out(text) == [stream |-> "stdout", text |-> text]
Error(text) == [stream |-> "stderr", text |-> text]

\* a fresh process of the script
ProcessStart ==
  /\ pc = "start" /\ exitCode = NULL /\ pool = "none"
  /\ answers = NoAnswers /\ rawKey = <<>> /\ keyHash = <<>> /\ tenantId = <<>>
  /\ err = <<>> /\ console = <<>> /\ stmts = <<>>

InitCli ==
  /\ env \in DatabaseUrls
  /\ run = 1
  /\ ProcessStart
  /\ db = [tx |-> "idle", committed |-> EmptyTables, pending |-> EmptyTables]
  /\ dbAtStart = EmptyTables

InitDbModule ==
  /\ dbEnv \in [DATABASE_URL : DatabaseUrls, NODE_ENV : NodeEnvs]
  /\ dbPool = NoPool
  /\ poolsConstructed = 0
  /\ dbCalls = 0
  /\ dbReturned = {}

\* ----------------------------------------------------------- main(): input
\* lines 35-41
CheckEnv ==
  /\ pc = "start"
  /\ IF Missing(env)
     THEN /\ console' = Append(console, Error(<<"Missing DATABASE_URL env var">>))
          /\ exitCode' = 1
          /\ pc' = "done"
          /\ pool' = pool
     ELSE /\ pool' = "open"
          /\ pc' = "askName"
          /\ UNCHANGED << console, exitCode >>
  /\ UNCHANGED << env, run, answers, rawKey, keyHash, tenantId, err, stmts, db >>
  /\ UNCHANGED << dbModuleVars, dbAtStart >>

\* lines 44-45
AskName ==
  /\ pc = "askName"
  /\ \E in \in NameInputs :
       /\ answers' = [answers EXCEPT !.name = Trim(in)]
       /\ IF Trim(in) = <<>>
          THEN err' = ErrNameRequired /\ pc' = "catch"
          ELSE err' = err /\ pc' = "askLabel"
  /\ UNCHANGED << env, run, exitCode, pool, rawKey, keyHash, tenantId, console, stmts, db >>
  /\ UNCHANGED << dbModuleVars, dbAtStart >>

\* line 47
AskLabel ==
  /\ pc = "askLabel"
  /\ \E in \in LabelInputs :
       answers' = [answers EXCEPT !.label = OrDefault(Trim(in), DefaultLabel)]
  /\ pc' = "askGhlApiKey"
  /\ UNCHANGED << env, run, exitCode, pool, rawKey, keyHash, tenantId, err, console, stmts, db >>
  /\ UNCHANGED << dbModuleVars, dbAtStart >>

\* line 49
AskGhlApiKey ==
  /\ pc = "askGhlApiKey"
  /\ \E in \in GhlApiKeyInputs : answers' = [answers EXCEPT !.ghlApiKey = Trim(in)]
  /\ pc' = "askGhlLocationId"
  /\ UNCHANGED << env, run, exitCode, pool, rawKey, keyHash, tenantId, err, console, stmts, db >>
  /\ UNCHANGED << dbModuleVars, dbAtStart >>

\* line 50
AskGhlLocationId ==
  /\ pc = "askGhlLocationId"
  /\ \E in \in GhlLocationIdInputs :
       answers' = [answers EXCEPT !.ghlLocationId = Trim(in)]
  /\ pc' = "askGhlBaseUrl"
  /\ UNCHANGED << env, run, exitCode, pool, rawKey, keyHash, tenantId, err, console, stmts, db >>
  /\ UNCHANGED << dbModuleVars, dbAtStart >>

\* lines 53-55
AskGhlBaseUrl ==
  /\ pc = "askGhlBaseUrl"
  /\ \E in \in GhlBaseUrlInputs :
       answers' = [answers EXCEPT !.ghlBaseUrl = OrDefault(Trim(in), DefaultGhlBaseUrl)]
  /\ pc' = "askGhlVersion"
  /\ UNCHANGED << env, run, exitCode, pool, rawKey, keyHash, tenantId, err, console, stmts, db >>
  /\ UNCHANGED << dbModuleVars, dbAtStart >>

\* line 56
AskGhlVersion ==
  /\ pc = "askGhlVersion"
  /\ \E in \in GhlVersionInputs :
       answers' = [answers EXCEPT !.ghlVersion = OrDefault(Trim(in), DefaultGhlVersion)]
  /\ pc' = "genApiKey"
  /\ UNCHANGED << env, run, exitCode, pool, rawKey, keyHash, tenantId, err, console, stmts, db >>
  /\ UNCHANGED << dbModuleVars, dbAtStart >>

\* lines 58-59: genApiKey() draws the key at random
GenApiKey ==
  /\ pc = "genApiKey"
  /\ \E k \in RawKeys : rawKey' = k /\ keyHash' = sha256Hex(k)
  /\ pc' = "begin"
  /\ UNCHANGED << env, run, exitCode, pool, answers, tenantId, err, console, stmts, db >>
  /\ UNCHANGED << dbModuleVars, dbAtStart >>

\* ----------------------------------------------------- main(): transaction
\* line 62: the statement that opens the transaction
NoBeginSql == "select 1"
BeginSql == "begin"

\* lines 72-75: the parameters of the api_keys insert
ApiKeyParamsPlain(id, raw, hash, lbl) == << id, raw, lbl >>
ApiKeyParams(id, raw, hash, lbl) == << id, hash, lbl >>

\* line 78: if (ghlApiKey || ghlLocationId)
NeedsSecretsBoth(k, l) == k # <<>> /\ l # <<>>
NeedsSecrets(k, l) == k # <<>> \/ l # <<>>

\* line 79: if (!ghlApiKey || !ghlLocationId)
PartialSecrets(k, l) == k = <<>> \/ l = <<>>

\* line 115: if (!ghlApiKey || !ghlLocationId)
NoteNeededInverted(k, l) == k # <<>> \/ l # <<>>
NoteNeeded(k, l) == k = <<>> \/ l = <<>>

\* an awaited query that rejects throws into the catch block
OnResultIgnored(res, next) == next
OnResult(res, next) == IF res = "ok" THEN next ELSE "catch"

\* lines 119-122: the message printed after the rollback was attempted
ReportedLast(e, rollbackRes) ==
  IF rollbackRes = "ok" THEN e ELSE DbError("rollback", rollbackRes)
Reported(e, rollbackRes) == e

\* await pool.query(sql, params), answered res
Send(sql, params, res) ==
  /\ db' = Exec(db, sql, params, res, Now).db
  /\ stmts' = Append(stmts, [sql |-> sql, params |-> params, res |-> res])

\* line 62
Begin ==
  /\ pc = "begin"
  /\ \E res \in Outcomes(db, BeginSql) :
       /\ Send(BeginSql, <<>>, res)
       /\ err' = IF res = "ok" THEN err ELSE DbError(BeginSql, res)
       /\ pc' = OnResult(res, "insertTenant")
  /\ UNCHANGED << env, run, exitCode, pool, answers, rawKey, keyHash, tenantId, console >>
  /\ UNCHANGED << dbModuleVars, dbAtStart >>

\* lines 65-69
InsertTenant ==
  /\ pc = "insertTenant"
  /\ \E res \in Outcomes(db, "insert tenants") :
       LET params == << answers.name >>
           rows == Exec(db, "insert tenants", params, res, Now).rows
       IN /\ Send("insert tenants", params, res)
          /\ tenantId' = IF res = "ok" THEN rows[1].id ELSE tenantId
          /\ err' = IF res = "ok" THEN err ELSE DbError("insert tenants", res)
          /\ pc' = OnResult(res, "insertApiKey")
  /\ UNCHANGED << env, run, exitCode, pool, answers, rawKey, keyHash, console >>
  /\ UNCHANGED << dbModuleVars, dbAtStart >>

\* lines 72-75
InsertApiKey ==
  /\ pc = "insertApiKey"
  /\ \E res \in Outcomes(db, "insert api_keys") :
       /\ Send("insert api_keys", ApiKeyParams(tenantId, rawKey, keyHash, answers.label), res)
       /\ err' = IF res = "ok" THEN err ELSE DbError("insert api_keys", res)
       /\ pc' = OnResult(res, "secrets")
  /\ UNCHANGED << env, run, exitCode, pool, answers, rawKey, keyHash, tenantId, console >>
  /\ UNCHANGED << dbModuleVars, dbAtStart >>

\* line 78, condition false: nothing is stored
SkipSecrets ==
  /\ pc = "secrets"
  /\ ~NeedsSecrets(answers.ghlApiKey, answers.ghlLocationId)
  /\ pc' = "commit"
  /\ UNCHANGED << env, run, exitCode, pool, answers, rawKey, keyHash, tenantId, err,
                  console, stmts, db >>
  /\ UNCHANGED << dbModuleVars, dbAtStart >>

\* lines 79-81
RejectPartialSecrets ==
  /\ pc = "secrets"
  /\ NeedsSecrets(answers.ghlApiKey, answers.ghlLocationId)
  /\ PartialSecrets(answers.ghlApiKey, answers.ghlLocationId)
  /\ err' = ErrBothRequired
  /\ pc' = "catch"
  /\ UNCHANGED << env, run, exitCode, pool, answers, rawKey, keyHash, tenantId,
                  console, stmts, db >>
  /\ UNCHANGED << dbModuleVars, dbAtStart >>

\* lines 83-96
UpsertSecrets ==
  /\ pc = "secrets"
  /\ NeedsSecrets(answers.ghlApiKey, answers.ghlLocationId)
  /\ ~PartialSecrets(answers.ghlApiKey, answers.ghlLocationId)
  /\ \E res \in Outcomes(db, "upsert tenant_secrets") :
       /\ Send("upsert tenant_secrets",
               << tenantId, answers.ghlApiKey, answers.ghlLocationId,
                  answers.ghlBaseUrl, answers.ghlVersion >>, res)
       /\ err' = IF res = "ok" THEN err ELSE DbError("upsert tenant_secrets", res)
       /\ pc' = OnResult(res, "commit")
  /\ UNCHANGED << env, run, exitCode, pool, answers, rawKey, keyHash, tenantId, console >>
  /\ UNCHANGED << dbModuleVars, dbAtStart >>

\* line 99
Commit ==
  /\ pc = "commit"
  /\ \E res \in Outcomes(db, "commit") :
       /\ Send("commit", <<>>, res)
       /\ err' = IF res = "ok" THEN err ELSE DbError("commit", res)
       /\ pc' = OnResult(res, "report")
  /\ UNCHANGED << env, run, exitCode, pool, answers, rawKey, keyHash, tenantId, console >>
  /\ UNCHANGED << dbModuleVars, dbAtStart >>

\* ---------------------------------------------------------- main(): report
\* lines 102-113
ReportLines ==
  << Out(<<"Tenant created!">>),
     Out(<<"--------------------------------------------------">>),
     Out(<<"Tenant:     ">> \o answers.name),
     Out(<<"Tenant ID:  ">> \o tenantId),
     Out(<<"Key label:  ">> \o answers.label),
     Out(<<"API Key (SAVE THIS NOW - it will not be shown again):">>),
     Out(rawKey),
     Out(<<"n8n Header:">>),
     Out(<<"Authorization: Bearer ">> \o rawKey),
     Out(<<"Execute endpoint:">>),
     Out(<<"POST /api/execute  (use your deployed base URL)">>),
     Out(<<"--------------------------------------------------">>) >>

\* line 116
NoteLine ==
  Out(<<"Note: You skipped tenant_secrets. This tenant will only work if your server has env GHL_API_KEY + GHL_LOCATION_ID set (single-tenant fallback).">>)

\* lines 102-117
Report ==
  /\ pc = "report"
  /\ console' = console \o ReportLines \o
                  (IF NoteNeeded(answers.ghlApiKey, answers.ghlLocationId)
                   THEN << NoteLine >> ELSE <<>>)
  /\ pc' = "finally"
  /\ UNCHANGED << env, run, exitCode, pool, answers, rawKey, keyHash, tenantId, err,
                  stmts, db >>
  /\ UNCHANGED << dbModuleVars, dbAtStart >>

\* lines 124-126, reached when the try block completes: the pool is closed and
\* the process ends by itself
PoolEnd ==
  /\ pc = "finally"
  /\ pool' = "ended"
  /\ db' = AbortSession(db)
  /\ exitCode' = 0
  /\ pc' = "done"
  /\ UNCHANGED << env, run, answers, rawKey, keyHash, tenantId, err, console, stmts >>
  /\ UNCHANGED << dbModuleVars, dbAtStart >>

\* lines 119-121: the rollback, whose own failure is caught by an empty catch
Rollback ==
  /\ pc = "catch"
  /\ \E res \in Results : Send("rollback", <<>>, res)
  /\ pc' = "fail"
  /\ UNCHANGED << env, run, exitCode, pool, answers, rawKey, keyHash, tenantId, err, console >>
  /\ UNCHANGED << dbModuleVars, dbAtStart >>

\* lines 122-123: process.exit(1) ends the process inside the catch block; the
\* finally block is not run, and the operating system closes the connection
Fail ==
  /\ pc = "fail"
  /\ console' = Append(console,
       Error(<<"create-tenant failed: ">> \o Reported(err, stmts[Len(stmts)].res)))
  /\ exitCode' = 1
  /\ db' = AbortSession(db)
  /\ pc' = "done"
  /\ UNCHANGED << env, run, pool, answers, rawKey, keyHash, tenantId, err, stmts >>
  /\ UNCHANGED << dbModuleVars, dbAtStart >>

\* the operator runs the script again, against the same database
Restart ==
  /\ pc = "done"
  /\ run < MaxRuns
  /\ run' = run + 1
  /\ env' \in DatabaseUrls
  /\ pc' = "start" /\ exitCode' = NULL /\ pool' = "none"
  /\ answers' = NoAnswers /\ rawKey' = <<>> /\ keyHash' = <<>> /\ tenantId' = <<>>
  /\ err' = <<>> /\ console' = <<>> /\ stmts' = <<>>
  /\ dbAtStart' = db.committed
  /\ UNCHANGED db
  /\ UNCHANGED dbModuleVars

\* ------------------------------------------------------------------- db()
\* lines 9-12: the pool this process would construct
NewPool(n, e) ==
  [id |-> n, connectionString |-> e.DATABASE_URL,
   ssl |-> IF e.NODE_ENV = "production" THEN "rejectUnauthorized: false" ELSE "undefined"]

\* line 8: if (!pool)
MustConstructAlways(p) == TRUE
MustConstruct(p) == p = NoPool

\* lines 7-15
Db ==
  /\ dbCalls < MaxDbCalls
  /\ IF MustConstruct(dbPool)
     THEN /\ dbPool' = NewPool(poolsConstructed + 1, dbEnv)
          /\ poolsConstructed' = poolsConstructed + 1
     ELSE UNCHANGED << dbPool, poolsConstructed >>
  /\ dbReturned' = dbReturned \cup { dbPool' }
  /\ dbCalls' = dbCalls + 1
  /\ UNCHANGED dbEnv
  /\ UNCHANGED cliVars

\* ---------------------------------------------------------- specifications
\* the script alone: the server process is not part of the run
Init ==
  /\ InitCli
  /\ InitDbModule
  /\ dbEnv = [DATABASE_URL |-> "unset", NODE_ENV |-> "unset"]

\* the server process alone: the script has not been started
InitDb ==
  /\ InitCli
  /\ env = "unset"
  /\ InitDbModule

Next ==
  \/ CheckEnv \/ AskName \/ AskLabel \/ AskGhlApiKey \/ AskGhlLocationId
  \/ AskGhlBaseUrl \/ AskGhlVersion \/ GenApiKey
  \/ Begin \/ InsertTenant \/ InsertApiKey
  \/ SkipSecrets \/ RejectPartialSecrets \/ UpsertSecrets
  \/ Commit \/ Report \/ PoolEnd \/ Rollback \/ Fail \/ Restart

\* the script, run up to MaxRuns times
Spec == Init /\ [][Next]_vars

NextDb == Db

\* a server process calling db()
SpecDb == InitDb /\ [][NextDb]_vars

\* ------------------------------------------------------------- properties
Done == pc = "done"
Succeeded == pc = "done" /\ exitCode = 0
Failed == pc = "done" /\ exitCode = 1

\* the rows committed since this invocation started
NewRows ==
  [tenants |-> db.committed.tenants \ dbAtStart.tenants,
   api_keys |-> db.committed.api_keys \ dbAtStart.api_keys,
   tenant_secrets |-> db.committed.tenant_secrets \ dbAtStart.tenant_secrets]

\* the rows a complete run commits: its tenant, its key, at most one secret of that tenant
FullRows(n) ==
  /\ n.tenants = { [id |-> tenantId, name |-> answers.name] }
  /\ n.api_keys = { [tenant_id |-> tenantId, key_hash |-> keyHash, label |-> answers.label] }
  /\ Cardinality(n.tenant_secrets) <= 1
  /\ \A r \in n.tenant_secrets : r.tenant_id = tenantId

Sent(sql) == \E i \in 1..Len(stmts) : stmts[i].sql = sql
SentOk(sql) == \E i \in 1..Len(stmts) : stmts[i].sql = sql /\ stmts[i].res = "ok"
Rejected(sql) == \E i \in 1..Len(stmts) : stmts[i].sql = sql /\ stmts[i].res # "ok"

\* no statement other than the rollback was rejected
NoDatabaseFailure == \A i \in 1..Len(stmts) : stmts[i].sql = "rollback" \/ stmts[i].res = "ok"

ErrorLine(msg) == Error(<<"create-tenant failed: ">> \o msg)
LastLine == console[Len(console)]

\* C1: all-or-nothing write. At every moment the rows committed since the run
\* started are none or the complete set (one tenants row, one api_keys row
\* referencing it, at most one tenant_secrets row of that tenant), nothing
\* committed before is lost, and when the process has terminated a failed run
\* has left none and a successful run the complete set.
C1_AllOrNothing ==
  /\ dbAtStart.tenants \subseteq db.committed.tenants
  /\ dbAtStart.api_keys \subseteq db.committed.api_keys
  /\ NewRows = EmptyTables \/ FullRows(NewRows)
  /\ Failed => NewRows = EmptyTables /\ db.committed = dbAtStart
  /\ Succeeded => FullRows(NewRows)
  /\ Done => db.tx = "idle" /\ db.pending = db.committed

\* a run that failed after both inserts had succeeded, and left nothing
C1_Witness ==
  /\ Failed
  /\ SentOk("insert tenants") /\ SentOk("insert api_keys")
  /\ Rejected("rollback")
  /\ NewRows = EmptyTables

ExactlyOneGhlField ==
  (answers.ghlApiKey = <<>>) # (answers.ghlLocationId = <<>>)

\* C2: with exactly one of the third-party key and the location id given, the
\* run fails, with the validation error when no database statement was
\* rejected before, no tenant_secrets statement is sent and no row of any table
\* is left; no tenant_secrets row, committed or pending, ever has exactly one
\* of the two fields.
C2_PartialCredentialsRejected ==
  /\ (Done /\ ExactlyOneGhlField) =>
       /\ exitCode = 1
       /\ ~Sent("upsert tenant_secrets")
       /\ db.committed = dbAtStart
       /\ NoDatabaseFailure => LastLine = ErrorLine(ErrBothRequired)
  /\ \A r \in db.committed.tenant_secrets \cup db.pending.tenant_secrets :
       r.ghl_api_key # <<>> /\ r.ghl_location_id # <<>>

\* the validation error of a run given the key without the location id
C2_Witness ==
  /\ Done
  /\ answers.ghlApiKey # <<>> /\ answers.ghlLocationId = <<>>
  /\ SentOk("insert api_keys")
  /\ LastLine = ErrorLine(ErrBothRequired)

\* C3: whenever the process has terminated after the pool was constructed,
\* pool.end() has been called.
C3_PoolClosedOnEveryExit == (Done /\ pool # "none") => pool = "ended"

\* the console lines of this run that show the plaintext key
KeyLines == { i \in 1..Len(console) : rawKey # <<>> /\ Contains(console[i].text, rawKey) }

\* the plaintext key is a parameter of a statement, or a field of a row
KeySentToDatabase ==
  \E i \in 1..Len(stmts) : \E j \in 1..Len(stmts[i].params) : stmts[i].params[j] = rawKey

KeyStored(t) ==
  \/ \E r \in t.tenants : rawKey \in { r.id, r.name }
  \/ \E r \in t.api_keys : rawKey \in { r.tenant_id, r.key_hash, r.label }
  \/ \E r \in t.tenant_secrets :
       rawKey \in { r.tenant_id, r.ghl_api_key, r.ghl_location_id, r.ghl_base_url, r.ghl_version }

OriginalError ==
  IF ~NoDatabaseFailure
  THEN LET i == CHOOSE k \in 1..Len(stmts) : stmts[k].sql # "rollback" /\ stmts[k].res # "ok"
       IN DbError(stmts[i].sql, stmts[i].res)
  ELSE IF answers.name = <<>> THEN ErrNameRequired ELSE ErrBothRequired

\* C5: when a step of main() failed and the rollback was rejected too, the
\* rollback's failure is swallowed: the one line on standard error is the
\* message of the original failure and the exit code is 1.
C5_RollbackFailureSwallowed ==
  (Done /\ Rejected("rollback")) =>
    /\ exitCode = 1
    /\ LastLine = ErrorLine(OriginalError)
    /\ Cardinality({ i \in 1..Len(console) : console[i].stream = "stderr" }) = 1

\* the api_keys insert was rejected, and then the rollback
C5_Witness ==
  /\ Done
  /\ Rejected("insert api_keys")
  /\ Rejected("rollback")
  /\ LastLine = ErrorLine(DbError("insert api_keys", "error"))

\* C6: with DATABASE_URL unset or empty no pool is constructed, nothing is
\* asked and no statement is sent, and the process ends with exit code 1.
C6_MissingDatabaseUrl ==
  (env = "unset" \/ env = "") =>
    /\ pool = "none"
    /\ stmts = <<>>
    /\ answers = NoAnswers
    /\ pc \in { "start", "done" }
    /\ db.tx = "idle"
    /\ Done => exitCode = 1

\* the exit of a run whose DATABASE_URL is the empty string
C6_Witness == env = "" /\ Done /\ exitCode = 1 /\ Len(console) = 1

NotePrinted == \E i \in 1..Len(console) : console[i] = NoteLine

\* C7: with a tenant name, both third-party fields blank and no statement
\* rejected, the run commits and exits 0, sends no tenant_secrets statement,
\* leaves tenant_secrets as it was and prints the fallback note; on every
\* successful run the note is printed exactly when the upsert was skipped.
C7_SkippedSecrets ==
  /\ (Done /\ stmts # <<>> /\ answers.name # <<>> /\ NoDatabaseFailure
        /\ answers.ghlApiKey = <<>> /\ answers.ghlLocationId = <<>>) =>
       /\ exitCode = 0
       /\ SentOk("commit")
       /\ ~Sent("upsert tenant_secrets")
       /\ db.committed.tenant_secrets = dbAtStart.tenant_secrets
       /\ NotePrinted
  /\ Succeeded => (NotePrinted <=> ~Sent("upsert tenant_secrets"))
  /\ NotePrinted => SentOk("commit") /\ ~Failed

\* a successful run that skipped the third-party credentials
C7_Witness ==
  /\ Succeeded
  /\ answers.ghlApiKey = <<>> /\ answers.ghlLocationId = <<>>
  /\ NotePrinted
  /\ ~Sent("upsert tenant_secrets")

\* the tenants of the same name that had a tenant_secrets row before this run
PriorTenantsWithSecrets ==
  { t \in dbAtStart.tenants :
      /\ t.name = answers.name
      /\ \E r \in dbAtStart.tenant_secrets : r.tenant_id = t.id }

\* the tenant_secrets row this run's values make for tenant id
SecretsRow(id) ==
  [tenant_id |-> id, ghl_api_key |-> answers.ghlApiKey,
   ghl_location_id |-> answers.ghlLocationId, ghl_base_url |-> answers.ghlBaseUrl,
   ghl_version |-> answers.ghlVersion, updated_at |-> Now]

\* C8 as stated: after a successful run that supplied third-party values, the
\* tenant_secrets row of a tenant of that name written by a prior run holds
\* the new values and the new timestamp, and the prior run's tenants and
\* api_keys rows are unchanged.
C8_RerunOverwritesSecrets ==
  (Succeeded /\ SentOk("upsert tenant_secrets")) =>
    /\ \A t \in PriorTenantsWithSecrets : SecretsRow(t.id) \in db.committed.tenant_secrets
    /\ dbAtStart.tenants \subseteq db.committed.tenants
    /\ dbAtStart.api_keys \subseteq db.committed.api_keys

\* C8 as amended: a run never addresses an existing tenant. The tenants insert
\* returns an identifier no earlier row has, so the upsert never meets a row
\* of its tenant: every tenants, api_keys and tenant_secrets row committed
\* before the run is still there unchanged, in the transaction and after it,
\* and a successful run that supplied third-party values adds one
\* tenant_secrets row, for its new tenant, with those values and the current
\* timestamp.
C8_RerunAddsNewTenant ==
  /\ dbAtStart.tenants \subseteq Visible(db).tenants
  /\ dbAtStart.api_keys \subseteq Visible(db).api_keys
  /\ dbAtStart.tenant_secrets \subseteq Visible(db).tenant_secrets
  /\ dbAtStart.tenants \subseteq db.committed.tenants
  /\ dbAtStart.api_keys \subseteq db.committed.api_keys
  /\ dbAtStart.tenant_secrets \subseteq db.committed.tenant_secrets
  /\ tenantId # <<>> =>
       /\ \A t \in dbAtStart.tenants : t.id # tenantId
       /\ \A r \in dbAtStart.tenant_secrets : r.tenant_id # tenantId
  /\ (Succeeded /\ SentOk("upsert tenant_secrets")) =>
       NewRows.tenant_secrets = { SecretsRow(tenantId) }

\* a second successful run for the name of a tenant that has a tenant_secrets
\* row, with another base URL
C8_Witness ==
  /\ Succeeded
  /\ SentOk("upsert tenant_secrets")
  /\ \E t \in PriorTenantsWithSecrets :
       \E r \in db.committed.tenant_secrets :
         /\ r.tenant_id = t.id
         /\ r.ghl_base_url # answers.ghlBaseUrl
         /\ r.updated_at < Now

\* C9: no pool exists before the first call of db(); after any number of
\* calls exactly one Pool has been constructed, and every call has returned
\* that instance.
C9_PoolMemoized ==
  /\ poolsConstructed <= 1
  /\ dbCalls = 0 => dbPool = NoPool /\ poolsConstructed = 0 /\ dbReturned = {}
  /\ dbCalls > 0 =>
       /\ poolsConstructed = 1
       /\ dbPool = NewPool(1, dbEnv)
       /\ dbReturned = { dbPool }

\* several calls of db(), all answered with the one pool
C9_Witness == dbCalls >= 3 /\ dbReturned = { dbPool } /\ poolsConstructed = 1

\* the statements that may come right before sql
Predecessors(sql) ==
  CASE sql = "begin" -> {}
    [] sql = "insert tenants" -> { "begin" }
    [] sql = "insert api_keys" -> { "insert tenants" }
    [] sql = "upsert tenant_secrets" -> { "insert api_keys" }
    [] sql = "commit" -> { "insert api_keys", "upsert tenant_secrets" }
    [] OTHER -> {}

\* C10: the statements are sent in the order begin, insert tenants, insert
\* api_keys, optional upsert tenant_secrets, commit, each only after the one
\* before it succeeded; a rollback is the last statement of its run; the
\* plaintext key is printed only after the commit succeeded, never by a run
\* that exits 1.
C10_WriteThenReport ==
  /\ \A i \in 1..Len(stmts) :
       /\ stmts[i].sql \in { "begin", "insert tenants", "insert api_keys",
                             "upsert tenant_secrets", "commit", "rollback" }
       /\ stmts[i].sql = "begin" => i = 1
       /\ (stmts[i].sql \notin { "begin", "rollback" }) =>
            /\ i > 1
            /\ stmts[i - 1].sql \in Predecessors(stmts[i].sql)
            /\ stmts[i - 1].res = "ok"
       /\ stmts[i].sql = "rollback" => i = Len(stmts)
       /\ (i < Len(stmts) /\ stmts[i].res # "ok") => stmts[i + 1].sql = "rollback"
  /\ KeyLines # {} => SentOk("commit") /\ stmts[Len(stmts)].sql = "commit"
  /\ Failed => KeyLines = {}
  /\ Succeeded => SentOk("commit")

\* a complete run: five statements, then the report
C10_Witness ==
  /\ Succeeded
  /\ Len(stmts) = 5
  /\ stmts[4].sql = "upsert tenant_secrets"
  /\ KeyLines # {}

====
